---- MODULE Spec2Model ----
(***************************************************************************)
(* Model of the books API: BooksController / BooksService / AuthService    *)
(* on top of BaseService, with the relational store as the arbiter of the  *)
(* unique constraints books(userId, title) and users(email).               *)
(* Every await of a handler is one step of the request that runs it.       *)
(***************************************************************************)
EXTENDS Integers, Sequences, FiniteSets, TLC

\* ---- bounds --------------------------------------------------------------
NumReqs == 2        \* book requests in flight at the same time
MaxRequests == 3    \* book requests that arrive in one run
MaxBooks == 2       \* ids the books sequence hands out
NumAuthReqs == 2    \* register requests in flight at the same time
MaxAuthRequests == 3 \* register requests that arrive in one run
MaxUsers == 2       \* ids the users sequence hands out
MaxRows == 3        \* rows the direct calls of the repository insert
MaxPage == 3        \* largest page number a call asks for

\* ---- inputs --------------------------------------------------------------
Users == {1, 2}                      \* ids of the authenticated users
Titles == {"t1", "t2"}
Reqs == 1..NumReqs
AuthReqs == 1..NumAuthReqs
NoStr == ""
NoId == 0

VARIABLES books, nextBookId, req, resp, arrived,
          users, nextUserId, areq, aresp, aarrived, tokens, call,
          coverImageUrl, objects, uar

vars == <<books, nextBookId, req, resp, arrived,
          users, nextUserId, areq, aresp, aarrived, tokens, call,
          coverImageUrl, objects, uar>>
bookVars == <<books, nextBookId, req, resp, arrived, coverImageUrl, objects>>
coverVars == <<coverImageUrl, objects>>
authVars == <<users, nextUserId, areq, aresp, aarrived, tokens>>
repoVars == <<call, uar>>

\* ---- entities ------------------------------------------------------------
NullBook == [id |-> NoId, userId |-> NoId, title |-> NoStr, author |-> NoStr]
NoBody == [title |-> NoStr, author |-> NoStr, userId |-> NoId]

\* request bodies as they arrive, before the validation pipe
CreateBodies ==
  { [title |-> t, author |-> "a1", userId |-> u] : t \in Titles, u \in {NoId, 2} }
UpdateBodies ==
  { [title |-> t, author |-> NoStr, userId |-> NoId] : t \in Titles }
  \cup { [title |-> NoStr, author |-> "a2", userId |-> u] : u \in {NoId, 2} }
  \cup { [title |-> "t2", author |-> "a2", userId |-> 2] }

\* ---- errors and responses ------------------------------------------------
\* an error value: isHttp tells an HttpException from a plain Error; the message
\* of a plain Error is 'Service error in <op[1]>: Service error in <op[2]>: ... <tmpl>'
NoErr == [isHttp |-> FALSE, status |-> 0, code |-> NoStr, constraint |-> <<>>,
          tmpl |-> NoStr, op |-> <<>>, title |-> NoStr]
\* what the Postgres driver raises on a unique violation
UniqueViolationError(constraintName) ==
  [isHttp |-> FALSE, status |-> 0, code |-> "23505", constraint |-> constraintName,
   tmpl |-> "duplicate key", op |-> <<>>, title |-> NoStr]
\* new Error(message)
PlainError(message) == [NoErr EXCEPT !.tmpl = message]
\* what a storage call rejects with when the connection is gone
StorageError == PlainError("Connection lost")
BooksUniqueName == <<"UQ", "books", "userId", "title">>
UsersUniqueName == <<"UQ", "users", "email">>
\* String.prototype.includes on a constraint name, kept as its word list
Includes(name, word) == \E i \in DOMAIN name : name[i] = word

\* BaseService.handleError: a fresh Error whose only content is the message
handleError(operation, error) ==
  [isHttp |-> FALSE, status |-> 0, code |-> NoStr, constraint |-> <<>>,
   tmpl |-> error.tmpl, op |-> <<operation>> \o error.op, title |-> NoStr]

\* throwErrorResponse(message, statusCode)
HttpError(statusCode, tmpl, title, operation) ==
  [isHttp |-> TRUE, status |-> statusCode, code |-> NoStr, constraint |-> <<>>,
   tmpl |-> tmpl, op |-> operation, title |-> title]

NoRes == [status |-> 0, tmpl |-> NoStr, op |-> <<>>, title |-> NoStr, data |-> NullBook]
\* the response the boundary derives from a thrown error
ErrRes(e) == [status |-> e.status, tmpl |-> e.tmpl, op |-> e.op, title |-> e.title,
              data |-> NullBook]
successResponse(status, data, message) ==
  [status |-> status, tmpl |-> message, op |-> <<>>, title |-> NoStr, data |-> data]

\* ---- the books table -----------------------------------------------------
\* variant: the books table without the constraint
UniqueUserIdTitleOff(bs) == TRUE
\* @Unique(['userId', 'title']) on Book
UniqueUserIdTitle(bs) ==
  \A b1 \in bs, b2 \in bs :
    (b1.userId = b2.userId /\ b1.title = b2.title) => b1.id = b2.id

\* the row an UPDATE ... SET leaves: only the columns the data carries change
MergeBook(b, data) ==
  [id |-> b.id,
   userId |-> IF data.userId # NoId THEN data.userId ELSE b.userId,
   title |-> IF data.title # NoStr THEN data.title ELSE b.title,
   author |-> IF data.author # NoStr THEN data.author ELSE b.author]

\* BaseService.create: repository.create + repository.save, errors through handleError;
\* accepted tells whether the table's unique constraint, named cname, admits the row
create(rows, entity, accepted, cname) ==
  IF accepted
    THEN [ok |-> TRUE, rows |-> rows \cup {entity}, raw |-> NoStr, error |-> NoErr]
    ELSE [ok |-> FALSE, rows |-> rows, raw |-> "23505",
          error |-> handleError("create", UniqueViolationError(cname))]

\* the entity repository.save returns for a book: the data plus the generated id
NewBook(nid, data) ==
  [id |-> nid, userId |-> data.userId, title |-> data.title, author |-> data.author]

\* BaseService.update: repository.update(id, data), errors through handleError
update(bs, id, data) ==
  LET after == { IF b.id = id THEN MergeBook(b, data) ELSE b : b \in bs }
  IN IF UniqueUserIdTitle(after)
       THEN [ok |-> TRUE, rows |-> after, raw |-> NoStr, error |-> NoErr]
       ELSE [ok |-> FALSE, rows |-> bs, raw |-> "23505",
             error |-> handleError("update", UniqueViolationError(BooksUniqueName))]

\* BaseService.delete: repository.delete(id)
delete(bs, id) == { b \in bs : b.id # id }

\* variant: the lookup filters on id only
findByIdOnly(bs, bookId, userId) ==
  IF \E b \in bs : b.id = bookId
    THEN CHOOSE b \in bs : b.id = bookId
    ELSE NullBook
\* BooksService.findByIdAndUser: one findOneBy on { id, userId }
findByIdAndUser(bs, bookId, userId) ==
  IF \E b \in bs : b.id = bookId /\ b.userId = userId
    THEN CHOOSE b \in bs : b.id = bookId /\ b.userId = userId
    ELSE NullBook

\* variant: the title check ignores the owner
titleExistsAnyUser(bs, userId, title) == \E b \in bs : b.title = title
\* BooksService.titleExistsForUser: count({ where: { userId, title } }) > 0
titleExistsForUser(bs, userId, title) ==
  Cardinality({ b \in bs : b.userId = userId /\ b.title = title }) > 0

\* ---- the validation pipe and the DTOs ------------------------------------
CreateBookDtoFields == {"title", "author", "userId"}
UpdateBookDtoFields == {"title", "author"}
\* ValidationPipe({ whitelist: true }): properties the DTO does not declare are dropped
Whitelist(body, fields) ==
  [title |-> IF "title" \in fields THEN body.title ELSE NoStr,
   author |-> IF "author" \in fields THEN body.author ELSE NoStr,
   userId |-> IF "userId" \in fields THEN body.userId ELSE NoId]

\* variant: the userId of the body is kept
bookDataFromBody(body, user) == Whitelist(body, CreateBookDtoFields)
\* createBook: { ...createBookDto, userId: user.id }
bookData(body, user) ==
  [Whitelist(body, CreateBookDtoFields) EXCEPT !.userId = user]

\* variant: the body reaches update() as it arrived
updateDataKeepsUserId(body) == body
\* updateBook: the whitelisted dto, then const { userId, ...updateData } = updateBookDto
updateData(body) ==
  [Whitelist(body, UpdateBookDtoFields) EXCEPT !.userId = NoId]

\* ---- BooksController catch blocks ----------------------------------------
TitleConflict(title) ==
  HttpError(409, "You already have a book with the title", title, <<>>)
\* catch of createBook
createBookCatch(error, title) ==
  IF error.isHttp THEN error
  ELSE IF error.code = "23505" /\ error.constraint # <<>>
          /\ Includes(error.constraint, "userId") /\ Includes(error.constraint, "title")
    THEN TitleConflict(title)
  ELSE HttpError(500, error.tmpl, NoStr, error.op)
\* catch of getBookById, updateBook and deleteBook
genericCatch(error) ==
  IF error.isHttp THEN error
  ELSE HttpError(500, error.tmpl, NoStr, error.op)

\* ---- cover images and the object store -----------------------------------
\* an uploaded file: Express.Multer.File
NoFile == [mimetype |-> NoStr, size |-> 0, originalname |-> NoStr]
maxSize == 3 * 1024 * 1024
Files ==
  { [mimetype |-> "image/png", size |-> 1024, originalname |-> "c.png"],
    [mimetype |-> "text/plain", size |-> 1024, originalname |-> "c.txt"],
    [mimetype |-> "image/jpeg", size |-> maxSize + 1, originalname |-> "c.jpg"] }
\* the values Date.now() takes at the uploads: two uploads may fall into the
\* same millisecond or not
Timestamps == {1, 2}
allowedMimeTypes == {"image/jpeg", "image/jpg", "image/png"}

\* a URL is the sequence of its '/'-separated parts; an object key likewise
NoUrl == <<>>
\* `covers/${user.id}/${Date.now()}-${coverImage.originalname}`
CoverKey(user, now, originalname) == <<"covers", user, <<now, originalname>>>>
\* MinioService.getPublicUrl(bucket, fileName): `${endpoint}/${bucket}/${fileName}`
getPublicUrl(fileName) == <<"http:", "", "endpoint", "bucket">> \o fileName
\* deleteBook: the key rebuilt from the last part of the stored URL
KeyOfUrl(user, url) == <<"covers", user, url[Len(url)]>>

\* the coverImageUrl column of the row with this id, '' when it is not set
CoverOf(column, id) ==
  IF \E c \in column : c.id = id THEN (CHOOSE c \in column : c.id = id).url ELSE NoUrl

\* ---- book requests -------------------------------------------------------
\* a request in flight: the handler it runs, the await it is suspended at, its inputs
IdleReq == [op |-> "none", pc |-> "idle", user |-> NoId, id |-> NoId, body |-> NoBody,
            file |-> NoFile, cover |-> NoUrl, warned |-> FALSE]
\* the response a step sends, with the request it answers; raw is the code of the
\* error the store raised inside that step, if any
NoResp == [op |-> "none", user |-> NoId, id |-> NoId, body |-> NoBody, file |-> NoFile,
           warned |-> FALSE, raw |-> NoStr, res |-> NoRes]

\* slots are interchangeable: an arriving request takes the lowest free one
CanStart(r) ==
  /\ arrived < MaxRequests
  /\ resp = NoResp
  /\ req[r].pc = "idle"
  /\ \A r2 \in Reqs : r2 < r => req[r2].pc # "idle"
\* the handler of slot r resumes at the await named pc
At(r, pc) == resp = NoResp /\ req[r].pc = pc
NewReq(op, user, id, body) == [op |-> op, pc |-> "idle", user |-> user, id |-> id,
                               body |-> body, file |-> NoFile, cover |-> NoUrl,
                               warned |-> FALSE]

\* the handler of q suspends at its next await
Suspend(r, q, pc) ==
  /\ req' = [req EXCEPT ![r] = [q EXCEPT !.pc = pc]]
  /\ resp' = NoResp
\* the handler of q returns or throws: the response goes out, the slot is free
Reply(r, q, res, raw) ==
  /\ req' = [req EXCEPT ![r] = IdleReq]
  /\ resp' = [op |-> q.op, user |-> q.user, id |-> q.id, body |-> q.body,
              file |-> q.file, warned |-> q.warned, raw |-> raw, res |-> res]

NotFound == HttpError(404, "Book not found", NoStr, <<>>)

\* variant: the cover is uploaded before the title is checked
createBookUploadsFirst(r, u, body, coverImage) ==
  \E now \in Timestamps :
    LET q == [NewReq("createBook", u, NoId, body) EXCEPT !.file = coverImage]
        dto == Whitelist(q.body, CreateBookDtoFields)
        fileName == CoverKey(u, now, coverImage.originalname)
    IN /\ CanStart(r)
       /\ IF titleExistsForUser(books, q.user, dto.title)
            THEN Reply(r, q, ErrRes(createBookCatch(TitleConflict(dto.title), dto.title)),
                       NoStr)
            ELSE Suspend(r, [q EXCEPT !.cover = IF coverImage # NoFile
                                                  THEN getPublicUrl(fileName) ELSE NoUrl],
                         "cb_create")
       /\ objects' = IF coverImage # NoFile THEN objects \cup {fileName} ELSE objects
       /\ arrived' = arrived + 1
       /\ UNCHANGED <<books, nextBookId, coverImageUrl, authVars, repoVars>>
\* createBook, up to and including await titleExistsForUser; coverImage is the
\* uploaded file, NoFile when the request has none
createBookArrives(r, u, body, coverImage) ==
  LET q == [NewReq("createBook", u, NoId, body) EXCEPT !.file = coverImage]
      dto == Whitelist(q.body, CreateBookDtoFields)
  IN /\ CanStart(r)
     /\ IF titleExistsForUser(books, q.user, dto.title)
          THEN Reply(r, q, ErrRes(createBookCatch(TitleConflict(dto.title), dto.title)),
                     NoStr)
          ELSE Suspend(r, q, IF coverImage # NoFile THEN "cb_upload" ELSE "cb_create")
     /\ arrived' = arrived + 1
     /\ UNCHANGED <<books, nextBookId, coverVars, authVars, repoVars>>

\* createBook without a cover image
CbCheck(r) ==
  \E u \in Users, body \in CreateBodies : createBookArrives(r, u, body, NoFile)

\* createBook with a cover image
CbCheckFile(r) ==
  \E u \in Users, coverImage \in Files :
    createBookArrives(r, u, [title |-> "t1", author |-> "a1", userId |-> NoId],
                      coverImage)

\* the HttpException uploadCoverImage's catch throws for whatever was thrown inside
UploadFailed(message) ==
  HttpError(500, "Failed to upload cover image: " \o message, NoStr, <<>>)

\* createBook: await this.uploadCoverImage(coverImage, user); putFails tells
\* whether minioService.uploadFile rejects
CbUpload(r) ==
  \E now \in Timestamps, putFails \in BOOLEAN :
    LET q == req[r]
        fileName == CoverKey(q.user, now, q.file.originalname)
    IN /\ At(r, "cb_upload")
       /\ IF q.file.mimetype \notin allowedMimeTypes
            THEN /\ Reply(r, q, ErrRes(createBookCatch(
                        UploadFailed("Invalid file type. Only JPEG, PNG images are allowed."),
                        q.body.title)), NoStr)
                 /\ objects' = objects
          ELSE IF q.file.size > maxSize
            THEN /\ Reply(r, q, ErrRes(createBookCatch(
                        UploadFailed("File too large. Maximum size is 3MB."),
                        q.body.title)), NoStr)
                 /\ objects' = objects
          ELSE IF putFails
            THEN /\ Reply(r, q, ErrRes(createBookCatch(
                        UploadFailed("Upload failed: "), q.body.title)), NoStr)
                 /\ objects' = objects
          ELSE /\ Suspend(r, [q EXCEPT !.cover = getPublicUrl(fileName)], "cb_create")
               /\ objects' = objects \cup {fileName}
       /\ UNCHANGED <<books, nextBookId, arrived, coverImageUrl, authVars, repoVars>>

\* createBook: await booksService.create(bookData), then the response or the catch
CbCreate(r) ==
  LET q == req[r]
      data == bookData(q.body, q.user)
      entity == NewBook(nextBookId, data)
      out == create(books, entity, UniqueUserIdTitle(books \cup {entity}), BooksUniqueName)
  IN /\ At(r, "cb_create")
     /\ ~out.ok \/ nextBookId <= MaxBooks
     /\ books' = out.rows
     /\ nextBookId' = IF out.ok THEN nextBookId + 1 ELSE nextBookId
     /\ coverImageUrl' = IF out.ok /\ q.cover # NoUrl
                           THEN coverImageUrl \cup {[id |-> entity.id, url |-> q.cover]}
                           ELSE coverImageUrl
     /\ IF out.ok
          THEN Reply(r, q, successResponse(201, entity, "Book created successfully"),
                     out.raw)
          ELSE Reply(r, q, ErrRes(createBookCatch(out.error, data.title)), out.raw)
     /\ UNCHANGED <<arrived, objects, authVars, repoVars>>

\* updateBook, up to and including the first await findByIdAndUser
UbFind(r) ==
  \E u \in Users, id \in 1..MaxBooks, body \in UpdateBodies :
    LET q == NewReq("updateBook", u, id, body)
        dto == Whitelist(q.body, UpdateBookDtoFields)
        existingBook == findByIdAndUser(books, q.id, q.user)
    IN /\ CanStart(r)
       /\ IF existingBook = NullBook
            THEN Reply(r, q, ErrRes(genericCatch(NotFound)), NoStr)
            ELSE Suspend(r, q, IF dto.title # NoStr /\ dto.title # existingBook.title
                                 THEN "ub_check" ELSE "ub_update")
       /\ arrived' = arrived + 1
       /\ UNCHANGED <<books, nextBookId, coverVars, authVars, repoVars>>

\* updateBook: await titleExistsForUser, when the title changes
UbCheck(r) ==
  LET q == req[r]
      dto == Whitelist(q.body, UpdateBookDtoFields)
  IN /\ At(r, "ub_check")
     /\ IF titleExistsForUser(books, q.user, dto.title)
          THEN Reply(r, q, ErrRes(genericCatch(TitleConflict(dto.title))), NoStr)
          ELSE Suspend(r, q, "ub_update")
     /\ UNCHANGED <<books, nextBookId, arrived, coverVars, authVars, repoVars>>

\* updateBook: await booksService.update(id, updateData)
UbUpdate(r) ==
  LET q == req[r]
      out == update(books, q.id, updateData(q.body))
  IN /\ At(r, "ub_update")
     /\ books' = out.rows
     /\ IF out.ok
          THEN Suspend(r, q, "ub_refetch")
          ELSE Reply(r, q, ErrRes(genericCatch(out.error)), out.raw)
     /\ UNCHANGED <<nextBookId, arrived, coverVars, authVars, repoVars>>

\* updateBook: await findByIdAndUser again, then the response
UbRefetch(r) ==
  LET q == req[r]
      updatedBook == findByIdAndUser(books, q.id, q.user)
  IN /\ At(r, "ub_refetch")
     /\ Reply(r, q, successResponse(200, updatedBook, "Book updated successfully"), NoStr)
     /\ UNCHANGED <<books, nextBookId, arrived, coverVars, authVars, repoVars>>

\* deleteBook, up to and including await findByIdAndUser
DbFind(r) ==
  \E u \in Users, id \in 1..MaxBooks :
    LET q == NewReq("deleteBook", u, id, NoBody)
        book == findByIdAndUser(books, q.id, q.user)
    IN /\ CanStart(r)
       /\ IF book = NullBook
            THEN Reply(r, q, ErrRes(genericCatch(NotFound)), NoStr)
            ELSE Suspend(r, [q EXCEPT !.cover = CoverOf(coverImageUrl, book.id)],
                         IF CoverOf(coverImageUrl, book.id) # NoUrl
                           THEN "db_cover" ELSE "db_delete")
       /\ arrived' = arrived + 1
       /\ UNCHANGED <<books, nextBookId, coverVars, authVars, repoVars>>

\* MinioService.deleteFile's catch: throw new Error(`Delete failed: ${error.message}`)
DeleteFailed == PlainError("Delete failed: ")
\* variant: the catch around the cover deletion throws the error on
deleteCoverRethrows(deleteError) == deleteError
\* deleteBook: catch (deleteError) { console.warn(...) }: nothing is thrown on
deleteCoverCatch(deleteError) == NoErr

\* deleteBook: await minioService.deleteFile(`covers/${user.id}/${fileName}`) inside
\* its own try/catch; removeFails tells whether removeObject rejects
DbCover(r) ==
  \E removeFails \in BOOLEAN :
    LET q == [req[r] EXCEPT !.warned = removeFails]
        thrown == IF removeFails THEN deleteCoverCatch(DeleteFailed) ELSE NoErr
    IN /\ At(r, "db_cover")
       /\ objects' = IF removeFails THEN objects
                     ELSE objects \ {KeyOfUrl(q.user, q.cover)}
       /\ IF thrown # NoErr
            THEN Reply(r, q, ErrRes(genericCatch(thrown)), NoStr)
            ELSE Suspend(r, q, "db_delete")
       /\ UNCHANGED <<books, nextBookId, arrived, coverImageUrl, authVars, repoVars>>

\* deleteBook: await booksService.delete(id), then the response
DbDelete(r) ==
  \E reject \in BOOLEAN :
    LET q == req[r]
    IN /\ At(r, "db_delete")
       /\ books' = IF reject THEN books ELSE delete(books, q.id)
       /\ coverImageUrl' = IF reject THEN coverImageUrl
                           ELSE { c \in coverImageUrl : c.id # q.id }
       /\ IF reject
            THEN Reply(r, q, ErrRes(genericCatch(handleError("delete", StorageError))),
                       "Connection lost")
            ELSE Reply(r, q, successResponse(200, NullBook, "Book deleted successfully"),
                       NoStr)
       /\ UNCHANGED <<nextBookId, arrived, objects, authVars, repoVars>>

\* getBookById: await findByIdAndUser, then the response
GetBookById(r) ==
  \E u \in Users, id \in 1..MaxBooks :
    LET q == NewReq("getBookById", u, id, NoBody)
        book == findByIdAndUser(books, q.id, q.user)
    IN /\ CanStart(r)
       /\ IF book = NullBook
            THEN Reply(r, q, ErrRes(genericCatch(NotFound)), NoStr)
            ELSE Reply(r, q, successResponse(200, book, "Book retrieved successfully"), NoStr)
       /\ arrived' = arrived + 1
       /\ UNCHANGED <<books, nextBookId, coverVars, authVars, repoVars>>

\* the response written by the last step is on its way to the client; the event
\* loop runs no other handler step before it has gone out
Deliver ==
  /\ resp # NoResp
  /\ resp' = NoResp
  /\ UNCHANGED <<books, nextBookId, req, arrived, coverVars, authVars, repoVars>>

InitBooks ==
  /\ books = {}
  /\ nextBookId = 1
  /\ req = [r \in Reqs |-> IdleReq]
  /\ resp = NoResp
  /\ arrived = 0
  /\ coverImageUrl = {}
  /\ objects = {}

\* ---- accounts ------------------------------------------------------------
\* an email is the sequence of its characters
Emails == { <<"a", "b">>, <<"A", "b">>, <<"A", "B">>, <<"c", "d">> }
Passwords == {"p1", "p2"}
NoEmail == <<>>

LowerChar(c) ==
  CASE c = "A" -> "a" [] c = "B" -> "b" [] c = "C" -> "c" [] c = "D" -> "d"
    [] c = "T" -> "t" [] OTHER -> c
\* variant: the email is stored as typed
toLowerCaseIdentity(e) == e
\* String.prototype.toLowerCase
toLowerCase(e) == [i \in DOMAIN e |-> LowerChar(e[i])]

\* variant: the users table without the index
UniqueEmailOff(us) == TRUE
\* @Index(['email'], { unique: true }) on User
UniqueEmail(us) ==
  \A u1 \in us, u2 \in us : u1.email = u2.email => u1.id = u2.id

\* variant: the count is compared with 1
existsMoreThanOne(us, value) == Cardinality({ u \in us : u.email = value }) > 1
\* BaseService.exists(field, value) on the users table, field = 'email'
exists(us, value) == Cardinality({ u \in us : u.email = value }) > 0

\* bcrypt.hash(password, 12): the salted hash, never equal to the password itself
Hash(password) == <<"$2a$12$", password>>

NoAuthRes == [status |-> 0, error |-> NoStr, message |-> NoStr, userId |-> NoId,
              email |-> NoEmail]
ConflictException(message) ==
  [status |-> 409, error |-> "ConflictException", message |-> message, userId |-> NoId,
   email |-> NoEmail]
BadRequestException(message) ==
  [status |-> 400, error |-> "BadRequestException", message |-> message, userId |-> NoId,
   email |-> NoEmail]
AuthResponse(user) ==
  [status |-> 201, error |-> NoStr, message |-> NoStr, userId |-> user.id,
   email |-> user.email]

\* the response of POST /auth/login, @HttpCode(HttpStatus.OK)
LoginResponse(user) == [AuthResponse(user) EXCEPT !.status = 200]
UnauthorizedException(message) ==
  [status |-> 401, error |-> "UnauthorizedException", message |-> message,
   userId |-> NoId, email |-> NoEmail]

NullUser == [id |-> NoId, email |-> NoEmail, password |-> <<>>]
\* BaseService.findByField('email', value) on the users table
findByField(us, value) == { u \in us : u.email = value }
\* userRepository.findOne({ where: { email }, select: ['id', 'email', 'password'] })
findOneWithPassword(us, value) ==
  IF \E u \in us : u.email = value
    THEN CHOOSE u \in us : u.email = value
    ELSE NullUser
\* variant: the password is compared with the stored hash as it is
compareVerbatim(password, hash) == hash = <<password>>
\* bcrypt.compare(password, hash)
compare(password, hash) == hash = Hash(password)

\* variant: an unknown email gets a message of its own
loginNoAccountDistinct == UnauthorizedException("User not found")
\* login: no account has the email
loginNoAccount == UnauthorizedException("Invalid email or password")
\* variant: the vanished account is reported as such
loginGoneNotFound ==
  [status |-> 404, error |-> "NotFoundException", message |-> "User not found",
   userId |-> NoId, email |-> NoEmail]
\* login: the second fetch found nothing
loginGone == UnauthorizedException("Invalid email or password")
\* login: the password does not match the hash
loginBadPassword == UnauthorizedException("Invalid email or password")

\* jwtService.sign(payload): the token, kept as the payload { sub, email } it carries
sign(user) == [sub |-> user.id, email |-> user.email]

\* what jwtService.sign throws when it cannot sign
SignError == PlainError("secretOrPrivateKey must have a value")

\* variant: the catch passes the message of the error on
registerCatchLeaks(error) ==
  IF error.code = "23505"
    THEN ConflictException("User with this email already exists")
    ELSE BadRequestException(error.tmpl)
\* catch of AuthService.register
registerCatch(error) ==
  IF error.code = "23505"
    THEN ConflictException("User with this email already exists")
    ELSE BadRequestException("Failed to create user")

IdleAuthReq == [op |-> "none", pc |-> "idle", email |-> NoEmail, password |-> NoStr,
                sub |-> NoId]
NoAuthResp == [op |-> "none", email |-> NoEmail, password |-> NoStr, sub |-> NoId,
               raw |-> NoStr,
               res |-> NoAuthRes]
CanStartAuth(a) ==
  /\ aarrived < MaxAuthRequests
  /\ aresp = NoAuthResp
  /\ areq[a].pc = "idle"
  /\ \A a2 \in AuthReqs : a2 < a => areq[a2].pc # "idle"

ReplyAuth(a, q, res, raw) ==
  /\ areq' = [areq EXCEPT ![a] = IdleAuthReq]
  /\ aresp' = [op |-> q.op, email |-> q.email, password |-> q.password, sub |-> q.sub,
               raw |-> raw,
               res |-> res]

\* register, up to and including await this.exists('email', email.toLowerCase())
RgExists(a) ==
  \E e \in Emails, p \in Passwords :
    LET q == [op |-> "register", pc |-> "rg_create", email |-> e, password |-> p,
              sub |-> NoId]
    IN /\ CanStartAuth(a)
       /\ IF exists(users, toLowerCase(q.email))
            THEN ReplyAuth(a, q, ConflictException("User with this email already exists"),
                           NoStr)
            ELSE areq' = [areq EXCEPT ![a] = q] /\ aresp' = NoAuthResp
       /\ aarrived' = aarrived + 1
       /\ UNCHANGED <<users, nextUserId, tokens, bookVars, repoVars>>

\* register: bcrypt.hash, await this.create(...), sign, then the response or the catch
RgCreate(a) ==
  \E reject \in BOOLEAN, signFails \in BOOLEAN :
    LET q == areq[a]
        entity == [id |-> nextUserId, email |-> toLowerCase(q.email),
                   password |-> Hash(q.password)]
        out == create(users, entity, UniqueEmail(users \cup {entity}), UsersUniqueName)
        saved == ~reject /\ out.ok
    IN /\ aresp = NoAuthResp
       /\ q.pc = "rg_create"
       /\ ~saved \/ nextUserId <= MaxUsers
       /\ users' = IF saved THEN out.rows ELSE users
       /\ nextUserId' = IF saved THEN nextUserId + 1 ELSE nextUserId
       /\ IF reject
            THEN ReplyAuth(a, q, registerCatch(handleError("create", StorageError)),
                           "Connection lost")
          ELSE IF ~out.ok
            THEN ReplyAuth(a, q, registerCatch(out.error), out.raw)
          ELSE IF signFails
            THEN ReplyAuth(a, q, registerCatch(SignError), "sign")
          ELSE ReplyAuth(a, q, AuthResponse(entity), NoStr)
       /\ tokens' = IF saved /\ ~signFails THEN tokens \cup {sign(entity)} ELSE tokens
       /\ UNCHANGED <<aarrived, bookVars, repoVars>>

\* login, up to and including await this.findByField('email', email.toLowerCase())
LgFind(a) ==
  \E e \in Emails, p \in Passwords :
    LET q == [op |-> "login", pc |-> "lg_fetch", email |-> e, password |-> p,
              sub |-> NoId]
    IN /\ CanStartAuth(a)
       /\ IF Cardinality(findByField(users, toLowerCase(q.email))) = 0
            THEN ReplyAuth(a, q, loginNoAccount, NoStr)
            ELSE areq' = [areq EXCEPT ![a] = q] /\ aresp' = NoAuthResp
       /\ aarrived' = aarrived + 1
       /\ UNCHANGED <<users, nextUserId, tokens, bookVars, repoVars>>

\* login: await userRepository.findOne with the password, bcrypt.compare, sign
LgFetch(a) ==
  LET q == areq[a]
      user == findOneWithPassword(users, toLowerCase(q.email))
  IN /\ aresp = NoAuthResp
     /\ q.pc = "lg_fetch"
     /\ ReplyAuth(a, q, IF user = NullUser THEN loginGone
                        ELSE IF ~compare(q.password, user.password) THEN loginBadPassword
                        ELSE LoginResponse(user),
                  IF user = NullUser THEN "no row" ELSE NoStr)
     /\ tokens' = IF user # NullUser /\ compare(q.password, user.password)
                    THEN tokens \cup {sign(user)} ELSE tokens
     /\ UNCHANGED <<users, nextUserId, aarrived, bookVars, repoVars>>

\* variant: the lookup ignores the id
getByIdAny(us, id) ==
  IF us # {} THEN CHOOSE u \in us : TRUE ELSE NullUser
\* BaseService.getById on the users table: findOneBy({ id })
getById(us, id) ==
  IF \E u \in us : u.id = id THEN CHOOSE u \in us : u.id = id ELSE NullUser

\* what validateUser returns: the User, or null
Returned(user) ==
  [status |-> 0, error |-> NoStr, message |-> NoStr, userId |-> user.id,
   email |-> user.email]

\* validateUser(payload) for the payload of a token this service signed
ValidateUser(a) ==
  \E payload \in tokens :
    LET q == [op |-> "validateUser", pc |-> "idle", email |-> payload.email,
              password |-> NoStr, sub |-> payload.sub]
    IN /\ CanStartAuth(a)
       /\ ReplyAuth(a, q, Returned(getById(users, payload.sub)), NoStr)
       /\ aarrived' = aarrived + 1
       /\ UNCHANGED <<users, nextUserId, tokens, bookVars, repoVars>>

\* AuthService.delete(id), inherited from BaseService: the account is removed
DeleteUser ==
  \E id \in 1..MaxUsers :
    /\ aresp = NoAuthResp
    /\ \E u \in users : u.id = id
    /\ users' = { u \in users : u.id # id }
    /\ UNCHANGED <<nextUserId, areq, aresp, aarrived, tokens, bookVars, repoVars>>

DeliverAuth ==
  /\ aresp # NoAuthResp
  /\ aresp' = NoAuthResp
  /\ UNCHANGED <<users, nextUserId, areq, aarrived, tokens, bookVars, repoVars>>

InitAuth ==
  /\ users = {}
  /\ nextUserId = 1
  /\ areq = [a \in AuthReqs |-> IdleAuthReq]
  /\ aresp = NoAuthResp
  /\ aarrived = 0
  /\ tokens = {}

\* ---- direct calls of the repository abstraction --------------------------
MaxLimit == 100
Pages == 0..MaxPage
Limits == {0, 1, 2, MaxLimit, MaxLimit + 1}
SortBys == {NoStr, "id", "title"}
SortOrders == {NoStr, "ASC", "DESC"}
\* the base filter: none, or where: { userId }
Wheres == {NoId, 1}

NoOptions == [page |-> 0, limit |-> 0, sortBy |-> NoStr, sortOrder |-> NoStr]
NoPagination ==
  [currentPage |-> 0, totalPages |-> 0, totalItems |-> 0, itemsPerPage |-> 0,
   hasNextPage |-> FALSE, hasPreviousPage |-> FALSE]
\* the last call: its arguments, whether it reached the storage call, whether
\* that call was rejected, and what the caller got
NoCall ==
  [op |-> "none", options |-> NoOptions, where |-> NoId, id |-> NoId, arg |-> NoBody,
   writes |-> <<>>, after |-> 0, term |-> NoStr,
   storage |-> FALSE, rejected |-> FALSE, ok |-> TRUE, error |-> NoErr,
   data |-> <<>>, pagination |-> NoPagination]

\* outcomes of a call: storage tells whether the storage call was invoked
Threw(storage, rejected, error, rows) ==
  [storage |-> storage, rejected |-> rejected, ok |-> FALSE, error |-> error,
   data |-> <<>>, pagination |-> NoPagination, rows |-> rows]
Resolved(data, pagination, rows) ==
  [storage |-> TRUE, rejected |-> FALSE, ok |-> TRUE, error |-> NoErr,
   data |-> data, pagination |-> pagination, rows |-> rows]

\* the rows a where clause selects
Matching(rows, where) == { b \in rows : where = NoId \/ b.userId = where }
\* every sequence that lists the rows of S once
Perms(S) ==
  { f \in [1..Cardinality(S) -> S] : \A i, j \in DOMAIN f : f[i] = f[j] => i = j }
\* the collation of the title column
Collate(title) == CASE title = "t1" -> 1 [] title = "t2" -> 2 [] OTHER -> 0
Column(b, sortBy) == IF sortBy = "id" THEN b.id ELSE Collate(b.title)
\* ORDER BY sortBy direction; rows with equal keys come in any order
InOrder(f, sortBy, direction) ==
  \A i, j \in DOMAIN f :
    i < j => IF direction = "DESC"
               THEN Column(f[i], sortBy) >= Column(f[j], sortBy)
               ELSE Column(f[i], sortBy) <= Column(f[j], sortBy)
\* the result sets of SELECT ... [ORDER BY]: without an order the store returns
\* the rows in an order of its choosing
Orderings(S, sortBy, direction) ==
  { f \in Perms(S) : sortBy = NoStr \/ InOrder(f, sortBy, direction) }
\* LIMIT take OFFSET skip
Window(f, skip, take) ==
  IF skip >= Len(f) THEN <<>>
  ELSE SubSeq(f, skip + 1, IF skip + take < Len(f) THEN skip + take ELSE Len(f))
\* repository.findAndCount({ where, order, take, skip }): the [data, count] pairs
findAndCount(rows, where, sortBy, direction, take, skip) ==
  { <<Window(f, skip, take), Cardinality(Matching(rows, where))>> :
      f \in Orderings(Matching(rows, where), sortBy, direction) }

\* variant: Math.floor
floorDiv(a, b) == a \div b
\* Math.ceil(a / b) for b > 0
ceil(a, b) == IF a % b = 0 THEN a \div b ELSE (a \div b) + 1

\* variant: the upper limit is not checked
limitOutOfRangeNoMax(limit) == limit < 1
\* limit < 1 || limit > 100
limitOutOfRange(limit) == limit < 1 \/ limit > MaxLimit

\* variant: the last page claims a next page
hasNextPageInclusive(page, totalPages) == page <= totalPages
hasNextPage(page, totalPages) == page < totalPages

\* the pagination block of the result
Pagination(page, limit, count) ==
  [currentPage |-> page, totalPages |-> ceil(count, limit), totalItems |-> count,
   itemsPerPage |-> limit, hasNextPage |-> hasNextPage(page, ceil(count, limit)),
   hasPreviousPage |-> page > 1]

\* BaseService.getPaginated(options, findOptions): the outcomes it can have;
\* reject tells whether the storage call fails
getPaginated(rows, options, where, reject) ==
  IF options.page < 1
    THEN { Threw(FALSE, FALSE,
                 handleError("getPaginated", PlainError("Page must be greater than 0")),
                 rows) }
  ELSE IF limitOutOfRange(options.limit)
    THEN { Threw(FALSE, FALSE,
                 handleError("getPaginated",
                             PlainError("Limit must be between 1 and 100")), rows) }
  ELSE IF reject
    THEN { Threw(TRUE, TRUE, handleError("getPaginated", StorageError), rows) }
  ELSE LET offset == (options.page - 1) * options.limit
           direction == IF options.sortOrder # NoStr THEN options.sortOrder ELSE "ASC"
       IN { Resolved(r[1], Pagination(options.page, options.limit, r[2]), rows) :
              r \in findAndCount(rows, where, options.sortBy, direction,
                                 options.limit, offset) }

\* a direct call whose promise settles with outcome out
Settle(op, options, where, id, arg, out) ==
  /\ call' = [op |-> op, options |-> options, where |-> where, id |-> id, arg |-> arg,
              writes |-> <<>>, after |-> 0, term |-> NoStr,
              storage |-> out.storage, rejected |-> out.rejected, ok |-> out.ok,
              error |-> out.error, data |-> out.data, pagination |-> out.pagination]
  /\ books' = out.rows

GetPaginated ==
  \E page \in Pages, limit \in Limits, sortBy \in SortBys, sortOrder \in SortOrders,
     where \in Wheres, reject \in BOOLEAN :
    LET options == [page |-> page, limit |-> limit, sortBy |-> sortBy,
                    sortOrder |-> sortOrder]
    IN /\ call = NoCall
       /\ \E out \in getPaginated(books, options, where, reject) :
            Settle("getPaginated", options, where, NoId, NoBody, out)
       /\ UNCHANGED <<nextBookId, req, resp, arrived, coverVars, authVars, uar>>

\* the findOptions a caller passes: its own where clause on userId, NoId for none
FindOptions == { [where |-> w] : w \in {NoId} \cup Users }
ByUserOptions ==
  { [page |-> p, limit |-> l, sortBy |-> "id", sortOrder |-> NoStr] :
      p \in 1..2, l \in {1, MaxLimit} }

\* variant: the caller's options are spread last
findOptionsFirst(findOptions, userId) ==
  IF findOptions.where # NoId THEN findOptions ELSE [findOptions EXCEPT !.where = userId]
\* { ...findOptions, where: { userId } }
whereOptions(findOptions, userId) == [findOptions EXCEPT !.where = userId]

\* BooksService.getPaginatedByUser(userId, options, findOptions)
getPaginatedByUser(rows, userId, options, findOptions, reject) ==
  getPaginated(rows, options, whereOptions(findOptions, userId).where, reject)

GetPaginatedByUser ==
  \E userId \in Users, options \in ByUserOptions, findOptions \in FindOptions,
     reject \in BOOLEAN :
    /\ call = NoCall
    /\ \E out \in getPaginatedByUser(books, userId, options, findOptions, reject) :
         Settle("getPaginatedByUser", options, findOptions.where, userId, NoBody, out)
    /\ UNCHANGED <<nextBookId, req, resp, arrived, coverVars, authVars, uar>>

\* BaseService.create(data) called directly: the insert, or the wrapped error
Create ==
  \E u \in Users, t \in Titles, reject \in BOOLEAN :
    LET data == [title |-> t, author |-> "a1", userId |-> u]
        entity == NewBook(nextBookId, data)
        out == create(books, entity, UniqueUserIdTitle(books \cup {entity}),
                      BooksUniqueName)
    IN /\ call = NoCall
       /\ nextBookId <= MaxRows
       /\ Settle("create", NoOptions, NoId, NoId, data,
                 IF reject
                   THEN Threw(TRUE, TRUE, handleError("create", StorageError), books)
                 ELSE IF out.ok THEN Resolved(<<entity>>, NoPagination, out.rows)
                 ELSE Threw(TRUE, FALSE, out.error, books))
       /\ nextBookId' = IF ~reject /\ out.ok THEN nextBookId + 1 ELSE nextBookId
       /\ UNCHANGED <<req, resp, arrived, coverVars, authVars, uar>>

\* repository.findOneBy({ id }) on the books table: the row, or null
findOneBy(rows, id) ==
  IF \E b \in rows : b.id = id THEN <<CHOOSE b \in rows : b.id = id>> ELSE <<>>

TitleData == [title |-> "t2", author |-> NoStr, userId |-> NoId]

\* BaseService.getById(id) on the books table
GetById ==
  \E id \in 1..MaxRows, reject \in BOOLEAN :
    /\ call = NoCall
    /\ Settle("getById", NoOptions, NoId, id, NoBody,
              IF reject THEN Threw(TRUE, TRUE, handleError("getById", StorageError), books)
              ELSE Resolved(findOneBy(books, id), NoPagination, books))
    /\ UNCHANGED <<nextBookId, req, resp, arrived, coverVars, authVars, uar>>

\* BaseService.update(id, data)
Update ==
  \E id \in 1..MaxRows, reject \in BOOLEAN :
    LET out == update(books, id, TitleData)
    IN /\ call = NoCall
       /\ Settle("update", NoOptions, NoId, id, TitleData,
                 IF reject
                   THEN Threw(TRUE, TRUE, handleError("update", StorageError), books)
                 ELSE IF out.ok THEN Resolved(<<>>, NoPagination, out.rows)
                 ELSE Threw(TRUE, FALSE, out.error, books))
       /\ UNCHANGED <<nextBookId, req, resp, arrived, coverVars, authVars, uar>>

\* BaseService.delete(id) called directly
Delete ==
  \E id \in 1..MaxRows, reject \in BOOLEAN :
    /\ call = NoCall
    /\ Settle("delete", NoOptions, NoId, id, NoBody,
              IF reject THEN Threw(TRUE, TRUE, handleError("delete", StorageError), books)
              ELSE Resolved(<<>>, NoPagination, delete(books, id)))
    /\ UNCHANGED <<nextBookId, req, resp, arrived, coverVars, authVars, uar>>

\* an updateAndReturn in flight between its two awaits; updated is the row as its
\* update left it, <<>> when the update matched no row
NoUar == [pc |-> "idle", id |-> NoId, data |-> NoBody, updated |-> <<>>]

\* BaseService.updateAndReturn(id, data), first await: repository.update(id, data)
updateAndReturnUpdate(rows, id, data, reject) ==
  LET out == update(rows, id, data)
  IN IF reject
       THEN Threw(TRUE, TRUE, handleError("updateAndReturn", StorageError), rows)
     ELSE IF ~out.ok
       THEN Threw(TRUE, FALSE,
                  handleError("updateAndReturn", UniqueViolationError(BooksUniqueName)),
                  rows)
     ELSE Resolved(<<>>, NoPagination, out.rows)

\* variant: the re-fetch insists on a row (findOneByOrFail)
updateAndReturnFetchOrFail(rows, id, reject) ==
  IF reject \/ findOneBy(rows, id) = <<>>
    THEN Threw(TRUE, reject,
               handleError("updateAndReturn", handleError("getById", StorageError)), rows)
    ELSE Resolved(findOneBy(rows, id), NoPagination, rows)
\* BaseService.updateAndReturn, second await: return await this.getById(id), whose
\* error arrives wrapped and is wrapped once more
updateAndReturnFetch(rows, id, reject) ==
  IF reject
    THEN Threw(TRUE, TRUE,
               handleError("updateAndReturn", handleError("getById", StorageError)), rows)
    ELSE Resolved(findOneBy(rows, id), NoPagination, rows)

\* updateAndReturn up to the end of its first await
UpdateAndReturn ==
  \E id \in 1..MaxRows, reject \in BOOLEAN :
    LET out == updateAndReturnUpdate(books, id, TitleData, reject)
    IN /\ call = NoCall
       /\ uar = NoUar
       /\ IF out.ok
            THEN /\ books' = out.rows
                 /\ uar' = [pc |-> "fetch", id |-> id, data |-> TitleData,
                            updated |-> findOneBy(out.rows, id)]
                 /\ call' = call
            ELSE /\ Settle("updateAndReturn", NoOptions, NoId, id, TitleData, out)
                 /\ uar' = uar
       /\ UNCHANGED <<nextBookId, req, resp, arrived, coverVars, authVars>>

\* updateAndReturn resumes at its second await; other calls may have run since
UarFetch ==
  \E reject \in BOOLEAN :
    /\ call = NoCall
    /\ uar.pc = "fetch"
    /\ Settle("updateAndReturn", NoOptions, NoId, uar.id, uar.data,
              updateAndReturnFetch(books, uar.id, reject))
    /\ uar' = [uar EXCEPT !.pc = "done"]
    /\ UNCHANGED <<nextBookId, req, resp, arrived, coverVars, authVars>>

\* the writes an operation makes through the transactional repository: the ids
\* of the rows it deletes, in order
TxWrites ==
  { <<i>> : i \in 1..MaxRows } \cup { <<i, j>> : i \in 1..MaxRows, j \in 2..MaxRows }
\* what the operation throws, if it throws
OpError == PlainError("operation failed")
TxThrows == {NoErr, StorageError, OpError}

RECURSIVE applyWrites(_, _, _)
\* the first n deletes of writes, applied to rows
applyWrites(rows, writes, n) ==
  IF n = 0 THEN rows
  ELSE { b \in applyWrites(rows, writes, n - 1) : b.id # writes[n] }

\* variant: the wrapper runs the operation on the plain repository
withoutTransaction(rows, writes, after, thrown) ==
  IF thrown # NoErr
    THEN Threw(TRUE, thrown = StorageError, thrown, applyWrites(rows, writes, after))
    ELSE Resolved(<<>>, NoPagination, applyWrites(rows, writes, Len(writes)))
\* BaseService.withTransaction(operation): manager.transaction commits when the
\* operation resolves, and rolls back and rethrows when it rejects after `after`
\* writes; no try/catch, what was thrown is what the caller gets
withTransaction(rows, writes, after, thrown) ==
  IF thrown # NoErr
    THEN Threw(TRUE, thrown = StorageError, thrown, rows)
    ELSE Resolved(<<>>, NoPagination, applyWrites(rows, writes, Len(writes)))

WithTransaction ==
  \E writes \in TxWrites, thrown \in TxThrows :
    \E after \in 0..Len(writes) :
      LET out == withTransaction(books, writes, after, thrown)
      IN /\ call = NoCall
         /\ thrown = NoErr => after = Len(writes)
         /\ call' = [op |-> "withTransaction", options |-> NoOptions, where |-> NoId,
                     id |-> NoId, arg |-> NoBody, writes |-> writes,
                     after |-> after, term |-> NoStr,
                     storage |-> out.storage, rejected |-> out.rejected, ok |-> out.ok,
                     error |-> out.error, data |-> out.data,
                     pagination |-> out.pagination]
         /\ books' = out.rows
         /\ UNCHANGED <<nextBookId, req, resp, arrived, coverVars, authVars, uar>>

\* the caller is done with the result
\* the search terms: letters in either case, a digit, the two wildcards of
\* LIKE and a term no title or author holds
Terms == {"T", "A1", "2", "_", "%", "x"}
\* column ILIKE pattern of PostgreSQL: % stands for any run of characters, _ for
\* any one character, a backslash takes the next character literally, every
\* other character stands for itself in either case
RECURSIVE ilike(_, _)
ilike(str, pattern) ==
  IF pattern = "" THEN str = ""
  ELSE LET c == Head(pattern)
       IN IF c = "%"
            THEN ilike(str, Tail(pattern)) \/ (str # "" /\ ilike(Tail(str), pattern))
          ELSE IF c = "_"
            THEN str # "" /\ ilike(Tail(str), Tail(pattern))
          ELSE IF c = "\\" /\ Tail(pattern) # ""
            THEN /\ str # ""
                 /\ LowerChar(Head(str)) = LowerChar(Head(Tail(pattern)))
                 /\ ilike(Tail(str), Tail(Tail(pattern)))
          ELSE /\ str # ""
               /\ LowerChar(Head(str)) = LowerChar(c)
               /\ ilike(Tail(str), Tail(pattern))
\* the template literal `%${searchTerm}%`
searchPattern(searchTerm) == "%" \o searchTerm \o "%"
\* book.userId = :userId AND (book.title ILIKE :searchTerm OR book.author ILIKE :searchTerm)
searchWhere(b, userId, searchTerm) ==
  /\ b.userId = userId
  /\ \/ ilike(b.title, searchPattern(searchTerm))
     \/ ilike(b.author, searchPattern(searchTerm))
\* BooksService.searchByTitleForUser: getMany gives the selected rows in an order
\* of the store's choosing
searchByTitleForUser(rows, userId, searchTerm, reject) ==
  IF reject
    THEN { Threw(TRUE, TRUE, handleError("searchByTitleForUser", StorageError), rows) }
    ELSE { Resolved(f, NoPagination, rows) :
             f \in Perms({ b \in rows : searchWhere(b, userId, searchTerm) }) }
SearchByTitleForUser ==
  \E userId \in Users, searchTerm \in Terms, reject \in BOOLEAN :
    \E out \in searchByTitleForUser(books, userId, searchTerm, reject) :
      /\ call = NoCall
      /\ call' = [op |-> "searchByTitleForUser", options |-> NoOptions, where |-> NoId,
                  id |-> userId, arg |-> NoBody, writes |-> <<>>, after |-> 0,
                  term |-> searchTerm,
                  storage |-> out.storage, rejected |-> out.rejected, ok |-> out.ok,
                  error |-> out.error, data |-> out.data,
                  pagination |-> out.pagination]
      /\ books' = out.rows
      /\ UNCHANGED <<nextBookId, req, resp, arrived, coverVars, authVars, uar>>

Return ==
  /\ call # NoCall
  /\ call' = NoCall
  /\ uar' = IF uar.pc = "done" THEN NoUar ELSE uar
  /\ UNCHANGED <<bookVars, authVars>>

InitRepo == call = NoCall /\ uar = NoUar

\* ---- specifications ------------------------------------------------------
Init == InitBooks /\ InitAuth /\ InitRepo

NextBooks ==
  \/ \E r \in Reqs :
       \/ CbCheck(r) \/ CbCreate(r)
       \/ UbFind(r) \/ UbCheck(r) \/ UbUpdate(r) \/ UbRefetch(r)
       \/ DbFind(r) \/ DbDelete(r)
       \/ GetBookById(r)
  \/ Deliver

NextAuth ==
  \/ \E a \in AuthReqs : RgExists(a) \/ RgCreate(a) \/ LgFind(a) \/ LgFetch(a)
  \/ DeliverAuth

\* book requests of the authenticated users
Spec == Init /\ [][NextBooks]_vars

\* register and login requests
AuthSpec == Init /\ [][NextAuth]_vars

NextAccount ==
  \/ NextAuth
  \/ \E a \in AuthReqs : ValidateUser(a)
  \/ DeleteUser

\* register and login requests, token validation, and removal of accounts
AccountSpec == Init /\ [][NextAccount]_vars

NextPage == GetPaginated \/ GetPaginatedByUser \/ Create \/ Return

\* direct calls of create and getPaginated on the books repository
PageSpec == Init /\ [][NextPage]_vars

NextRepo ==
  \/ Create \/ GetById \/ Update \/ Delete \/ UpdateAndReturn \/ UarFetch
  \/ WithTransaction
  \/ Return

\* direct calls of the operations of the repository abstraction, each with a
\* storage call that may fail
RepoSpec == Init /\ [][NextRepo]_vars

NextSearch == Create \/ SearchByTitleForUser \/ Return
\* the calls on the search of BooksService, one at a time
SearchSpec == Init /\ [][NextSearch]_vars

NextCover ==
  \/ \E r \in Reqs :
       \/ CbCheckFile(r) \/ CbUpload(r) \/ CbCreate(r)
       \/ DbFind(r) \/ DbCover(r) \/ DbDelete(r)
  \/ Deliver

\* createBook with and without a cover image, and deleteBook
CoverSpec == Init /\ [][NextCover]_vars

\* ---- properties ----------------------------------------------------------
BookOps == {"getBookById", "updateBook", "deleteBook"}
HasBook(bs, userId, title) == \E b \in bs : b.userId = userId /\ b.title = title
ConflictNaming(res, title) ==
  /\ res.status = 409
  /\ res.tmpl = "You already have a book with the title"
  /\ res.title = title

\* C1: a createBook that passed the title pre-check and whose insert the store
\* rejects with the unique violation on (userId, title), because a concurrent
\* request of the same owner inserted the same title first, is answered with
\* 409 Conflict naming the title, and the owner holds that title exactly once.
C1_RaceLoserGetsConflict ==
  (resp.op = "createBook" /\ resp.raw = "23505") =>
     /\ ConflictNaming(resp.res, resp.body.title)
     /\ Cardinality({ b \in books : b.userId = resp.user /\ b.title = resp.body.title }) = 1

\* C2: a register that passed the exists pre-check and whose insert the store
\* rejects with the unique violation on email is answered with ConflictException
\* 'User with this email already exists', and one account holds the email.
C2_RegisterRaceLoserGetsConflict ==
  (aresp.raw = "23505") =>
     /\ aresp.res.error = "ConflictException"
     /\ aresp.res.message = "User with this email already exists"
     /\ Cardinality({ u \in users : u.email = [i \in DOMAIN aresp.email |->
                                                  LowerChar(aresp.email[i])] }) = 1

\* C3: no two stored books have the same (userId, title), in every reachable state
\* of any interleaving of createBook, updateBook and deleteBook.
C3_UniqueOwnerTitle ==
  \A b1 \in books, b2 \in books :
    (b1.userId = b2.userId /\ b1.title = b2.title) => b1 = b2
\* the store has just refused a write that would have duplicated a title of an owner
C3_Witness ==
  /\ resp.raw = "23505"
  /\ \E b \in books : b.userId = resp.user /\ b.title = resp.body.title

\* C4: no two stored accounts have the same email and every stored email is lowercase.
C4_UniqueLowercaseEmail ==
  /\ \A u1 \in users, u2 \in users : u1.email = u2.email => u1 = u2
  /\ \A u \in users : \A i \in DOMAIN u.email : u.email[i] \in {"a", "b", "c", "d"}
\* a register with an upper-case email was stored, and another one lost the race
C4_Witness ==
  /\ aresp.raw = "23505"
  /\ \E i \in DOMAIN aresp.email : aresp.email[i] \in {"A", "B"}
  /\ \E u \in users : Len(u.email) = Len(aresp.email) /\ u.email # aresp.email
                      /\ \A i \in DOMAIN u.email : u.email[i] = LowerChar(aresp.email[i])

\* C5: what findByIdAndUser hands to getBookById is a stored book with the asked id
\* and the asked userId; for an id whose book belongs to another user it is absent.
C5_FindByIdAndUser ==
  (resp.op = "getBookById") =>
     /\ resp.res.data # NullBook =>
          /\ resp.res.data \in books
          /\ resp.res.data.id = resp.id
          /\ resp.res.data.userId = resp.user
     /\ (\E b \in books : b.id = resp.id /\ b.userId # resp.user) =>
          resp.res.data = NullBook
\* getBookById was asked for the id of a book of another user and got nothing
C5_Witness ==
  /\ resp.op = "getBookById"
  /\ resp.res.data = NullBook
  /\ \E b \in books : b.id = resp.id /\ b.userId # resp.user

\* the user on whose behalf a step runs
ActingUser(r) ==
  IF req[r].pc # "idle" THEN req[r].user
  ELSE IF req'[r].pc # "idle" THEN req'[r].user ELSE resp'.user
C7_OwnerImmutable ==
  [][ \A b1 \in books, b2 \in books' : b1.id = b2.id => b1.userId = b2.userId ]_vars
\* an updateBook whose body carried the userId of another user went through
C7_Witness ==
  /\ resp.op = "updateBook"
  /\ resp.res.status = 200
  /\ resp.body.userId \notin {NoId, resp.user}
  /\ resp.res.data.userId = resp.user
  /\ resp.res.data.author = resp.body.author

\* C8: the book createBook stores and returns has the userId of the authenticated
\* user, whatever userId the body carries.
C8_CreatedForCaller ==
  (resp.op = "createBook" /\ resp.res.status = 201) =>
     /\ resp.res.data.userId = resp.user
     /\ resp.res.data \in books
\* a createBook whose body named another user created the book
C8_Witness ==
  /\ resp.op = "createBook"
  /\ resp.res.status = 201
  /\ resp.body.userId \notin {NoId, resp.user}

C10_RenameRaceGetsConflict ==
  (resp.op = "updateBook" /\ resp.raw = "23505") =>
     /\ ConflictNaming(resp.res, resp.body.title)
     /\ \E b \in books : b.id = resp.id /\ b.title # resp.body.title

HasAccount(us, email) ==
  \E u \in us : Len(u.email) = Len(email)
                /\ \A i \in DOMAIN email : u.email[i] = LowerChar(email[i])

\* C11: a register that arrives when an account already holds its email, up to
\* letter case, is answered ConflictException and leaves the accounts as they were;
\* accounts are never removed, so this is every register after a successful one.
C11_RegisterTwice ==
  [][ /\ users \subseteq users'
      /\ \A a \in AuthReqs :
           (areq[a].pc = "idle" /\ areq'[a].op = "register") =>
              ~HasAccount(users, areq'[a].email)
      /\ (/\ aresp = NoAuthResp /\ areq' = areq
          /\ aresp'.op = "register" /\ HasAccount(users, aresp'.email)) =>
            /\ aresp'.res.error = "ConflictException"
            /\ aresp'.res.message = "User with this email already exists"
            /\ users' = users
    ]_vars
\* a register with another casing of a stored email was refused
C11_Witness ==
  /\ aresp.op = "register"
  /\ aresp.res.error = "ConflictException"
  /\ aresp.res.status = 409
  /\ HasAccount(users, aresp.email)
  /\ \A u \in users : u.email # aresp.email

\* C12: a login with any casing of the email of a stored account and the password
\* the account was registered with succeeds with the id of that account and the
\* lower-case email.
C12_LoginAfterRegister ==
  (aresp.op = "login") =>
     \A u \in users :
        (/\ Len(u.email) = Len(aresp.email)
         /\ \A i \in DOMAIN u.email : u.email[i] = LowerChar(aresp.email[i])
         /\ u.password = <<"$2a$12$", aresp.password>>)
          => /\ aresp.res.status = 200
             /\ aresp.res.userId = u.id
             /\ aresp.res.email = u.email
             /\ \A i \in DOMAIN aresp.res.email : aresp.res.email[i] \in {"a", "b", "c", "d"}
\* a login typed in upper case succeeded
C12_Witness ==
  /\ aresp.op = "login"
  /\ aresp.res.status = 200
  /\ \E i \in DOMAIN aresp.email : aresp.email[i] \in {"A", "B"}
  /\ \E u \in users : u.id = aresp.res.userId /\ u.email = aresp.res.email

\* C13: every login refused for lack of an account and every login refused for a
\* wrong password carries the same error and the same message.
C13_SameLoginFailure ==
  (aresp.op = "login" /\ aresp.res.status # 200) =>
     /\ aresp.res.error = "UnauthorizedException"
     /\ aresp.res.message = "Invalid email or password"
     /\ aresp.res.status = 401
     /\ aresp.res.userId = NoId /\ aresp.res.email = NoEmail
\* a login for an email nobody registered was refused while accounts exist
C13_Witness ==
  /\ aresp.op = "login"
  /\ aresp.res.status = 401
  /\ users # {}
  /\ ~HasAccount(users, aresp.email)

\* C14: validateUser returns the account whose id is payload.sub, and returns
\* absent, with no error, when no account has that id.
C14_ValidateUser ==
  (aresp.op = "validateUser") =>
     /\ aresp.res.error = NoStr
     /\ \A u \in users : u.id = aresp.sub =>
          (aresp.res.userId = u.id /\ aresp.res.email = u.email)
     /\ (\A u \in users : u.id # aresp.sub) =>
          (aresp.res.userId = NoId /\ aresp.res.email = NoEmail)
\* the account of a signed token was removed, another account is left, and
\* validateUser returned absent
C14_Witness ==
  /\ aresp.op = "validateUser"
  /\ aresp.res.userId = NoId
  /\ \E t \in tokens : t.sub = aresp.sub
  /\ users # {}
  /\ \A u \in users : u.id # aresp.sub

\* C15: getPaginated with page < 1, limit < 1 or limit > 100 fails with the
\* validation error and never invokes findAndCount.
C15_RejectsBeforeStorage ==
  (/\ call.op = "getPaginated"
   /\ (call.options.page < 1 \/ call.options.limit < 1 \/ call.options.limit > 100)) =>
     /\ ~call.ok
     /\ ~call.storage
     /\ call.error.tmpl = IF call.options.page < 1
                            THEN "Page must be greater than 0"
                            ELSE "Limit must be between 1 and 100"
     /\ call.data = <<>>
\* limit 101 on a table that has rows for page 1
C15_Witness ==
  /\ call.op = "getPaginated"
  /\ call.options.page = 1
  /\ call.options.limit = 101
  /\ books # {}
  /\ ~call.ok

\* C16: for page >= 1 and 1 <= limit <= 100, getPaginated returns
\* totalPages = ceil(totalItems / limit), itemsPerPage = limit, currentPage = page
\* and at most limit items, totalItems being the number of rows the base filter
\* matches.
C16_PaginationMath ==
  (/\ call.op = "getPaginated"
   /\ call.options.page >= 1 /\ call.options.limit >= 1 /\ call.options.limit <= 100
   /\ ~call.rejected) =>
     LET pg == call.pagination
         n == Cardinality({ b \in books : call.where = NoId \/ b.userId = call.where })
     IN /\ call.ok
        /\ pg.totalItems = n
        /\ pg.totalPages * call.options.limit >= n
        /\ (pg.totalPages - 1) * call.options.limit < n
        /\ pg.itemsPerPage = call.options.limit
        /\ pg.currentPage = call.options.page
        /\ Len(call.data) <= call.options.limit
\* three rows in pages of two: the second of two pages holds one row
C16_Witness ==
  /\ call.op = "getPaginated" /\ call.ok
  /\ call.options.limit = 2 /\ call.options.page = 2
  /\ call.pagination.totalItems = 3
  /\ call.pagination.totalPages = 2
  /\ Len(call.data) = 1

\* C17: for every successful getPaginated, hasNextPage is true exactly when
\* page < totalPages and hasPreviousPage exactly when page > 1.
C17_PageFlags ==
  (call.op = "getPaginated" /\ call.ok) =>
     /\ call.pagination.hasNextPage <=>
          (call.options.page < call.pagination.totalPages)
     /\ call.pagination.hasPreviousPage <=> (call.options.page > 1)
\* the page asked for lies behind the last page
C17_Witness ==
  /\ call.op = "getPaginated" /\ call.ok
  /\ call.pagination.totalItems > 0
  /\ call.options.page > call.pagination.totalPages
  /\ ~call.pagination.hasNextPage
  /\ call.pagination.hasPreviousPage

\* the rows of S by ascending id
IdOrdered(S) ==
  CHOOSE f \in Perms(S) : \A i, j \in DOMAIN f : i < j => f[i].id < f[j].id
\* C18: without sortBy the query is ordered ascending by id: the items of a page
\* are the window at offset (page-1)*limit of the id-ordered result set.
C18_DefaultOrderById ==
  (call.op = "getPaginated" /\ call.ok /\ call.options.sortBy = NoStr) =>
     call.data = Window(IdOrdered(Matching(books, call.where)),
                        (call.options.page - 1) * call.options.limit,
                        call.options.limit)

\* C20: when the storage call of an operation of the repository abstraction
\* fails, the caller gets one error 'Service error in <operation>: <cause message>',
\* never the raw storage error.
C20_StorageErrorsWrapped ==
  call.rejected =>
     /\ ~call.ok
     /\ call.error.op = <<call.op>>
     /\ call.error.tmpl = "Connection lost"

\* C19: deleteBook by the owner of a book with a cover image: when the deletion of
\* the cover in the object store fails, the book record is still removed and the
\* request succeeds; the error of the cover deletion is not propagated. (A
\* rejection of the deletion of the record itself is another failure, set aside.)
C19_CoverFailureIgnored ==
  (resp.op = "deleteBook" /\ resp.warned /\ resp.raw # "Connection lost") =>
     /\ resp.res.status = 200
     /\ resp.res.tmpl = "Book deleted successfully"
     /\ \A b \in books : b.id # resp.id
\* the cover deletion failed, the object is still in the store, the book is gone
C19_Witness ==
  /\ resp.op = "deleteBook" /\ resp.warned
  /\ resp.res.status = 200
  /\ objects # {}
  /\ \A b \in books : b.id # resp.id

\* C21: updateAndReturn updates and re-fetches in two steps: when the record is
\* gone at the re-fetch it returns absent and raises no error; when the record is
\* still as the update left it, as it is when no writer ran between the two
\* steps, it returns the record with the new field values.
C21_UpdateAndReturnRace ==
  [][ (uar.pc = "fetch" /\ uar'.pc = "done" /\ ~call'.rejected) =>
        /\ call'.ok /\ call'.error = NoErr
        /\ (\A b \in books : b.id # uar.id) => call'.data = <<>>
        /\ (uar.updated # <<>> /\ uar.updated[1] \in books) =>
              /\ Len(call'.data) = 1
              /\ call'.data[1].id = uar.id
              /\ call'.data[1].title = uar.data.title
              /\ call'.data[1] \in books
    ]_vars
\* a delete ran between the update and the re-fetch, which returned absent
C21_Witness ==
  /\ uar.pc = "done" /\ uar.updated # <<>>
  /\ call.op = "updateAndReturn" /\ call.ok
  /\ call.data = <<>>
  /\ \A b \in books : b.id # call.id

\* C22: withTransaction(op) commits every write of op when op returns normally,
\* and leaves none of them visible, handing the error to the caller, when op
\* throws after any number of writes.
C22_TransactionAtomic ==
  [][ (call = NoCall /\ call'.op = "withTransaction") =>
        IF call'.ok
          THEN books' = { b \in books :
                            \A i \in DOMAIN call'.writes : b.id # call'.writes[i] }
          ELSE /\ books' = books
               /\ call'.error \in {PlainError("Connection lost"),
                                   PlainError("operation failed")}
    ]_vars
\* the operation threw after its first write had removed a row: the row is there
C22_Witness ==
  /\ call.op = "withTransaction" /\ ~call.ok
  /\ Len(call.writes) = 2 /\ call.after = 1
  /\ \E b \in books : b.id = call.writes[1]

\* C23: getPaginatedByUser returns only books of the given userId and totalItems
\* is the number of that owner's books, whatever where clause the caller's
\* findOptions carry.
C23_OwnerFilterWins ==
  (call.op = "getPaginatedByUser" /\ call.ok) =>
     /\ \A i \in DOMAIN call.data : call.data[i].userId = call.id
     /\ call.pagination.totalItems =
          Cardinality({ b \in books : b.userId = call.id })
\* the caller asked for the other owner's books and got its own
C23_Witness ==
  /\ call.op = "getPaginatedByUser" /\ call.ok
  /\ call.where # NoId /\ call.where # call.id
  /\ call.data # <<>>
  /\ \E b \in books : b.userId = call.where

\* C24: when persisting the account fails for a reason other than a uniqueness
\* violation, register fails with BadRequestException('Failed to create user'),
\* which carries nothing of the storage failure.
C24_GenericCreateFailure ==
  (aresp.op = "register" /\ aresp.raw = "Connection lost") =>
     /\ aresp.res.status = 400
     /\ aresp.res.error = "BadRequestException"
     /\ aresp.res.message = "Failed to create user"
     /\ aresp.res.userId = NoId /\ aresp.res.email = NoEmail
\* the insert of a new email was rejected by the storage while an account exists
C24_Witness ==
  /\ aresp.op = "register" /\ aresp.raw = "Connection lost"
  /\ aresp.res.status = 400
  /\ users # {}
  /\ \A u \in users : u.email # [i \in DOMAIN aresp.email |-> LowerChar(aresp.email[i])]

\* C26: a login whose account is removed between the lookup by email and the
\* fetch with the password fails with UnauthorizedException('Invalid email or
\* password'); whatever deletions interleave, login ends in success or in that error.
C26_LoginDeletionRace ==
  (aresp.op = "login") =>
     \/ /\ aresp.res.status = 200
        /\ aresp.raw # "no row"
     \/ /\ aresp.res.status = 401
        /\ aresp.res.error = "UnauthorizedException"
        /\ aresp.res.message = "Invalid email or password"
\* the second fetch found no row: the account went away after the first lookup
C26_Witness ==
  /\ aresp.op = "login" /\ aresp.raw = "no row"
  /\ aresp.res.status = 401
  /\ \A u \in users : u.email # [i \in DOMAIN aresp.email |-> LowerChar(aresp.email[i])]

\* C27: a register call that ends in an error leaves the set of stored accounts
\* as it was.
C27_RegisterAllOrNothing ==
  [][ (aresp = NoAuthResp /\ aresp'.op = "register" /\ aresp'.res.status # 201) =>
        users' = users
    ]_vars

\* str holds term as a run of consecutive characters, letter case aside
RECURSIVE toLowerCaseStr(_)
toLowerCaseStr(str) ==
  IF str = "" THEN "" ELSE LowerChar(Head(str)) \o toLowerCaseStr(Tail(str))
ContainsIgnoreCase(str, term) ==
  \E i \in 0..(Len(str) - Len(term)) :
    toLowerCaseStr(SubSeq(str, i + 1, i + Len(term))) = toLowerCaseStr(term)
\* C25: searchByTitleForUser(userId, term) returns exactly the books of userId
\* whose title or author contains term as a case-insensitive substring.
C25_SearchExactlyContaining ==
  (call.op = "searchByTitleForUser" /\ call.ok) =>
     { call.data[i] : i \in DOMAIN call.data } =
        { b \in books : /\ b.userId = call.id
                        /\ \/ ContainsIgnoreCase(b.title, call.term)
                           \/ ContainsIgnoreCase(b.author, call.term) }
\* the part of C25 on owners: every returned book belongs to userId, also when
\* another owner has a book with the same matching title
C25_SearchOwnBooksOnly ==
  (call.op = "searchByTitleForUser" /\ call.ok) =>
     \A i \in DOMAIN call.data : call.data[i].userId = call.id
C25_OwnBooksOnly_Reached ==
  /\ call.op = "searchByTitleForUser" /\ call.ok /\ call.term = "T"
  /\ call.data # <<>>
  /\ \E b \in books : b.userId # call.id /\ b.title = call.data[1].title

\* C28: createBook with a cover image of another mimetype than image/jpeg,
\* image/jpg, image/png, or of more than 3 MB, is rejected with status 400; no
\* object is uploaded and no book is created.
C28_BadCoverIsBadRequest ==
  [][ \A r \in Reqs :
        ( /\ req[r].pc = "cb_upload" /\ req'[r].pc # "cb_upload"
          /\ \/ req[r].file.mimetype \notin {"image/jpeg", "image/jpg", "image/png"}
             \/ req[r].file.size > 3 * 1024 * 1024 )
        => /\ resp'.res.status = 400
           /\ objects' = objects
           /\ books' = books
    ]_vars

\* C29: a createBook whose owner already has a book with the requested title when
\* the title is checked is answered with the conflict at once: it does not go on
\* to the upload, no object is written and no book is inserted.
C29_PreCheckBeforeUpload ==
  [][ (arrived' = arrived + 1) =>
        /\ \A r \in Reqs :
             (req'[r] # req[r] /\ req'[r].op = "createBook") =>
                /\ ~\E b \in books : b.userId = req'[r].user /\ b.title = req'[r].body.title
                /\ objects' = objects
        /\ (resp'.op = "createBook") =>
             /\ \E b \in books : b.userId = resp'.user /\ b.title = resp'.body.title
             /\ resp'.res.status = 409
             /\ resp'.res.tmpl = "You already have a book with the title"
             /\ resp'.res.title = resp'.body.title
             /\ objects' = objects
             /\ books' = books
    ]_vars
\* a createBook with a valid cover image was refused by the pre-check while the
\* object of the first book's cover is the only one in the store
C29_Witness ==
  /\ resp.op = "createBook" /\ resp.raw = NoStr
  /\ resp.res.status = 409
  /\ resp.file # NoFile /\ resp.file.mimetype = "image/png"
  /\ \E b \in books : b.userId = resp.user /\ b.title = resp.body.title
  /\ Cardinality(objects) = 1

\* C30: every stored book whose coverImageUrl is set refers to an object that is
\* in the object store.
C30_CoverObjectPresent ==
  \A c \in coverImageUrl :
    (\E b \in books : b.id = c.id) => \E k \in objects : getPublicUrl(k) = c.url
\* the part of C30 on a failing deleteBook: a deleteBook that answered with an
\* error left the cover of its book in the store
C30_FailedDeleteKeepsCover ==
  (resp.op = "deleteBook" /\ resp.res.status = 500) =>
     \A c \in coverImageUrl :
       c.id = resp.id => \E k \in objects : getPublicUrl(k) = c.url

====
